---- MODULE Spec2Model ----
(***************************************************************************)
(* The sleep-score engine of win-predictor (src/helpers/sleep_scoring.py)  *)
(* as a state machine: one team's timeline is loaded row by row, then the  *)
(* nine scoring functions run over it in the order of main().  The         *)
(* multi-team driver (src/main_multi_team_schedule.py) loads a frame of    *)
(* several teams' rows and runs the same nine functions team by team.      *)
(* geocode_calls is the history of the calls made to the geocoder.         *)
(*                                                                         *)
(* Units.  Instants are minutes on the Eastern wall clock counted from     *)
(* 00:00 of day 0; the timeline is taken to lie inside one daylight-saving *)
(* regime, so differences of instants are differences of these numbers.    *)
(* Durations and UTC offsets are minutes.  running_sleep_debt is kept in   *)
(* minutes (the code's float hours times 60; every value the code can      *)
(* produce from whole-minute offsets is exact in both).                    *)
(* A missing value (pandas NaT / None / NaN) is the empty tuple <<>>, a    *)
(* present value v is <<v>>.                                               *)
(***************************************************************************)
EXTENDS Integers, Sequences, FiniteSets, TLC

VARIABLES games, cols, pc, now_season, error, geocode_calls,
          frame, teams, sleep_scores

vars == <<games, cols, pc, now_season, error, geocode_calls, frame, teams, sleep_scores>>

\* ------------------------------------------------------------------ bounds
MaxGames        == 3
MaxGamesDensity == 5
MaxGamesDebt    == 3
MaxGamesCirc    == 2
MaxGamesStatic  == 3
MaxFrameRows    == 3
MaxGamesEval    == 3
MaxGamesScenario == 3
MaxRawGames     == 2
MaxDraftGames   == 4

\* --------------------------------------------------------------- helpers
NaT == <<>>
IsNaT(t) == t = <<>>
Val(t) == t[1]

Max(a, b) == IF a >= b THEN a ELSE b
Min(a, b) == IF a <= b THEN a ELSE b
Abs(a) == IF a >= 0 THEN a ELSE -a

MinutesPerHour == 60
MinutesPerDay  == 1440

\* Faulty variant: floor instead of truncation
IntOfQuotientFloor(a, b) == a \div b

\* Python int(x) of the quotient a / b (b > 0): truncation toward zero.
IntOfQuotient(a, b) == IF a >= 0 THEN a \div b ELSE -((-a) \div b)

\* ------------------------------------------------------------ input rows
\* The venues a row can carry: city/state/country from team_info, timezone
\* from the geocoder and timezonefinder.  "UNK" is a team that team_info
\* does not know (empty city, no timezone); "NY_NOTZ" a known city whose
\* timezone lookup failed; "STJ" a venue in a half-hour zone.
Venue ==
  [ NY      |-> [city |-> "New York",    state |-> "New York",   country |-> "USA",
                 timezone |-> <<"America/New_York">>],
    LA      |-> [city |-> "Los Angeles", state |-> "California", country |-> "USA",
                 timezone |-> <<"America/Los_Angeles">>],
    DEN     |-> [city |-> "Denver",      state |-> "Colorado",   country |-> "USA",
                 timezone |-> <<"America/Denver">>],
    PHX     |-> [city |-> "Phoenix",     state |-> "Arizona",    country |-> "USA",
                 timezone |-> <<"America/Phoenix">>],
    MIA     |-> [city |-> "Miami",       state |-> "Florida",    country |-> "USA",
                 timezone |-> <<"America/New_York">>],
    CHI     |-> [city |-> "Chicago",     state |-> "Illinois",   country |-> "USA",
                 timezone |-> <<"America/Chicago">>],
    DAL     |-> [city |-> "Dallas",      state |-> "Texas",      country |-> "USA",
                 timezone |-> <<"America/Chicago">>],
    STJ     |-> [city |-> "St. John's",  state |-> "Newfoundland and Labrador",
                 country |-> "Canada",   timezone |-> <<"America/St_Johns">>],
    NY_NOTZ |-> [city |-> "New York",    state |-> "New York",   country |-> "USA",
                 timezone |-> <<>>],
    UNK     |-> [city |-> "",            state |-> "",           country |-> "",
                 timezone |-> <<>>] ]

\* datetime.now(tz).utcoffset() in minutes, by the daylight-saving regime in
\* force at the instant the computation runs.
UtcOffset ==
  [ winter |-> [America_New_York |-> -300, America_Los_Angeles |-> -480,
                America_Denver |-> -420,   America_Phoenix |-> -420,
                America_Chicago |-> -360,  America_St_Johns |-> -210],
    summer |-> [America_New_York |-> -240, America_Los_Angeles |-> -420,
                America_Denver |-> -360,   America_Phoenix |-> -420,
                America_Chicago |-> -300,  America_St_Johns |-> -150] ]

ZoneKey(name) ==
  CASE name = "America/New_York"    -> "America_New_York"
    [] name = "America/Los_Angeles" -> "America_Los_Angeles"
    [] name = "America/Denver"      -> "America_Denver"
    [] name = "America/Phoenix"     -> "America_Phoenix"
    [] name = "America/Chicago"     -> "America_Chicago"
    [] name = "America/St_Johns"    -> "America_St_Johns"

\* ZoneInfo(x) succeeds exactly on a present, known zone name; on a missing
\* value it raises TypeError, on an unknown name ZoneInfoNotFoundError.
ZoneInfoRaises(tz) == IsNaT(tz)

utcoffset(tz, season) == UtcOffset[season][ZoneKey(Val(tz))]

\* combine_date_time: the kickoff instant of a game on calendar day `day` at
\* Eastern time-of-day `tod` (minutes), NaT when the time did not parse.
combine_date_time(day, tod) ==
  IF IsNaT(tod) THEN NaT ELSE <<day * MinutesPerDay + Val(tod)>>

\* convert_to_local: the same instant expressed in the venue's zone, NaT when
\* the start or the timezone is missing.
convert_to_local(start, tz) ==
  IF IsNaT(start) \/ IsNaT(tz) THEN NaT ELSE start

\* One cleaned row of nba_games_updated.csv.
Row(day, tod, v, log) ==
  [ date_converted           |-> day,
    start_datetime_ET        |-> combine_date_time(day, tod),
    game_time_local_timezone |-> convert_to_local(combine_date_time(day, tod),
                                                  Venue[v].timezone),
    city     |-> Venue[v].city,
    state    |-> Venue[v].state,
    country  |-> Venue[v].country,
    timezone |-> Venue[v].timezone,
    LOG      |-> log ]

\* ---------------------------------------------- multiple_games_in_short_timeframe
Tier1Penalty == -20
Tier2Penalty == -40

\* Faulty variant: the scan left as soon as a game lies more than 5 days back
RECURSIVE ScanBack_break_at_6_days(_, _, _, _)
ScanBack_break_at_6_days(gs, idx, back_idx, c) ==
  IF back_idx < 1 THEN c
  ELSE LET delta_days == gs[idx].date_converted - gs[back_idx].date_converted
           c2 == <<IF delta_days <= 1 THEN c[1] + 1 ELSE c[1],
                   IF delta_days <= 3 THEN c[2] + 1 ELSE c[2],
                   IF delta_days <= 5 THEN c[3] + 1 ELSE c[3],
                   c[4]>>
       IN IF delta_days <= 5
            THEN ScanBack_break_at_6_days(gs, idx, back_idx - 1,
                                          <<c2[1], c2[2], c2[3], c[4] + 1>>)
          ELSE c2

\* The backward scan of lines 33-45 from back_idx down to the first row, with
\* the four counters c = <<games_in_2_days, .._4_, .._6_, .._8_days>>.
RECURSIVE ScanBack(_, _, _, _)
ScanBack(gs, idx, back_idx, c) ==
  IF back_idx < 1 THEN c
  ELSE LET delta_days == gs[idx].date_converted - gs[back_idx].date_converted
           c2 == <<IF delta_days <= 1 THEN c[1] + 1 ELSE c[1],
                   IF delta_days <= 3 THEN c[2] + 1 ELSE c[2],
                   IF delta_days <= 5 THEN c[3] + 1 ELSE c[3],
                   IF delta_days <= 7 THEN c[4] + 1 ELSE c[4]>>
       IN IF delta_days <= 7 THEN ScanBack(gs, idx, back_idx - 1, c2)
          ELSE c2   \* break

\* Faulty variant: the scan started at the game itself, which is then counted twice
window_counts_from_self(gs, idx) == ScanBack(gs, idx, idx, <<1, 1, 1, 1>>)

window_counts(gs, idx) == ScanBack(gs, idx, idx - 1, <<1, 1, 1, 1>>)

\* Faulty variant: the window thresholds one too low ("a 2nd game in four days")
conditions_met_loose(gs, idx) ==
  LET c == window_counts(gs, idx)
  IN (IF c[1] >= 2 THEN 1 ELSE 0) + (IF c[2] >= 2 THEN 1 ELSE 0)
   + (IF c[3] >= 3 THEN 1 ELSE 0) + (IF c[4] >= 4 THEN 1 ELSE 0)

conditions_met(gs, idx) ==
  LET c == window_counts(gs, idx)
  IN (IF c[1] >= 2 THEN 1 ELSE 0) + (IF c[2] >= 3 THEN 1 ELSE 0)
   + (IF c[3] >= 4 THEN 1 ELSE 0) + (IF c[4] >= 5 THEN 1 ELSE 0)

\* Faulty variant: one tier only: any number of conditions costs the tier-1 value
density_penalty_single_tier(gs, idx) ==
  IF conditions_met(gs, idx) >= 1 THEN Tier1Penalty ELSE 0

density_penalty(gs, idx) ==
  IF conditions_met(gs, idx) > 1 THEN Tier2Penalty
  ELSE IF conditions_met(gs, idx) = 1 THEN Tier1Penalty
  ELSE 0

\* ------------------------------------------------------ static modifiers
AltitudePenalty  == -10
NightlifePenalty == -10
party_cities == {"Los Angeles", "Miami", "Chicago", "Dallas"}

high_altitude_penalty(city) == IF city = "Denver" THEN AltitudePenalty ELSE 0

\* Faulty variant: the last city of the list left out
nightlife_penalty_short_list(city) ==
  IF city \in {"Los Angeles", "Miami", "Chicago"} THEN NightlifePenalty ELSE 0

nightlife_penalty(city) == IF city \in party_cities THEN NightlifePenalty ELSE 0

\* ------------------------------------------------- calculate_running_sleep_debt
\* The body of the try block at index idx raises (and the handlers of lines
\* 105-110 run) when a ZoneInfo lookup fails or int() meets the NaN that a
\* missing start instant produces.
sleep_debt_step_fails(prev, cur) ==
  \/ ZoneInfoRaises(prev.timezone)
  \/ ZoneInfoRaises(cur.timezone)
  \/ IsNaT(prev.start_datetime_ET)
  \/ IsNaT(cur.start_datetime_ET)

\* Faulty variant: the decay applied without the clamps at zero
sleep_debt_decayed_unclamped(last, prev, cur, season) ==
  LET tz_diff == utcoffset(cur.timezone, season) - utcoffset(prev.timezone, season)
      curr_sleep_debt == last + tz_diff
      whole_days == IntOfQuotient(Val(cur.start_datetime_ET)
                                    - Val(prev.start_datetime_ET), MinutesPerDay)
  IN IF curr_sleep_debt > 0 THEN curr_sleep_debt - whole_days * MinutesPerHour
     ELSE IF curr_sleep_debt < 0 THEN curr_sleep_debt + whole_days * MinutesPerHour
     ELSE curr_sleep_debt

\* Faulty variant: a negative debt decayed with the sign of the positive branch
sleep_debt_decayed_wrong_sign(last, prev, cur, season) ==
  LET tz_diff == utcoffset(cur.timezone, season) - utcoffset(prev.timezone, season)
      curr_sleep_debt == last + tz_diff
      whole_days == IntOfQuotient(Val(cur.start_datetime_ET)
                                    - Val(prev.start_datetime_ET), MinutesPerDay)
  IN IF curr_sleep_debt > 0
       THEN Max(curr_sleep_debt - whole_days * MinutesPerHour, 0)
     ELSE IF curr_sleep_debt < 0
       THEN Min(curr_sleep_debt - whole_days * MinutesPerHour, 0)
     ELSE curr_sleep_debt

\* Faulty variant: the decay counted in calendar days between the two dates
sleep_debt_decayed_calendar_days(last, prev, cur, season) ==
  LET tz_diff == utcoffset(cur.timezone, season) - utcoffset(prev.timezone, season)
      curr_sleep_debt == last + tz_diff
      whole_days == cur.date_converted - prev.date_converted
  IN IF curr_sleep_debt > 0
       THEN Max(curr_sleep_debt - whole_days * MinutesPerHour, 0)
     ELSE IF curr_sleep_debt < 0
       THEN Min(curr_sleep_debt + whole_days * MinutesPerHour, 0)
     ELSE curr_sleep_debt

\* Lines 89-103: the new debt (minutes) from the previous one.
sleep_debt_decayed(last, prev, cur, season) ==
  LET tz_diff == utcoffset(cur.timezone, season) - utcoffset(prev.timezone, season)
      curr_sleep_debt == last + tz_diff
      whole_days == IntOfQuotient(Val(cur.start_datetime_ET)
                                    - Val(prev.start_datetime_ET), MinutesPerDay)
  IN IF curr_sleep_debt > 0
       THEN Max(curr_sleep_debt - whole_days * MinutesPerHour, 0)
     ELSE IF curr_sleep_debt < 0
       THEN Min(curr_sleep_debt + whole_days * MinutesPerHour, 0)
     ELSE curr_sleep_debt

\* Faulty variant: a failed step resets the debt instead of keeping it
sleep_debt_step_reset(last, prev, cur, season) ==
  IF sleep_debt_step_fails(prev, cur) THEN 0
  ELSE sleep_debt_decayed(last, prev, cur, season)

sleep_debt_step(last, prev, cur, season) ==
  IF sleep_debt_step_fails(prev, cur) THEN last   \* sleep_debt.append(sleep_debt[-1])
  ELSE sleep_debt_decayed(last, prev, cur, season)

\* The list sleep_debt after the loop has handled indices up to n (1-based
\* rows; the list starts as [0] whatever the frame holds).
RECURSIVE sleep_debt_list(_, _, _)
sleep_debt_list(gs, season, n) ==
  IF n <= 1 THEN <<0>>
  ELSE LET sofar == sleep_debt_list(gs, season, n - 1)
       IN Append(sofar, sleep_debt_step(sofar[n - 1], gs[n - 1], gs[n], season))

\* An exception leaves calculate_running_sleep_debt only from line 111: the
\* list always holds at least one value, so its length differs from that of a
\* frame without rows.  Everything inside the loop is caught.
sleep_debt_escapes(gs, season) == Len(gs) = 0

\* ----------------------------------------------------------- sleep_debt_penalty
DebtPenaltyPerHour == -10
\* Faulty variant: abs of the floor instead of abs of the truncation
debt_penalty_floor(debt) == DebtPenaltyPerHour * Abs(debt \div MinutesPerHour)

\* -10 * abs(int(x)), x the debt in hours
debt_penalty(debt) == DebtPenaltyPerHour * Abs(IntOfQuotient(debt, MinutesPerHour))

\* ------------------------------------------------------------ circadian bands
HandicappedPenalty == -20
OptimalBonus       == 20

\* body_clock_time.hour and .minute of game_time + timedelta(hours=debt)
body_clock_minute_of_day(start, debt) == (Val(start) + debt) % MinutesPerDay
body_clock_hour_part(start, debt) == body_clock_minute_of_day(start, debt) \div MinutesPerHour
body_clock_minute_part(start, debt) == body_clock_minute_of_day(start, debt) % MinutesPerHour

\* The band tests on body_clock_hour = n / d hours (a rational, so that the
\* comparison with 16.0167 is the one the floats make).
in_handicapped_band(n, d) == 12 * d <= n /\ n <= 16 * d
\* Faulty variant: the optimal band opened at 16.0, sharing its edge with the other
in_optimal_band_overlap(n, d) == 16 * d <= n /\ n <= 20 * d

in_optimal_band(n, d) == 160167 * d <= 10000 * n /\ n <= 20 * d

\* Faulty variant: a missing start treated as a start inside the band
handicapped_penalty_nat_in_band(start, debt) ==
  IF IsNaT(start) THEN HandicappedPenalty
  ELSE IF in_handicapped_band(body_clock_hour_part(start, debt) * MinutesPerHour
                                + body_clock_minute_part(start, debt), MinutesPerHour)
       THEN HandicappedPenalty ELSE 0

handicapped_penalty(start, debt) ==
  IF IsNaT(start) THEN 0
  ELSE IF in_handicapped_band(body_clock_hour_part(start, debt) * MinutesPerHour
                                + body_clock_minute_part(start, debt), MinutesPerHour)
       THEN HandicappedPenalty ELSE 0

optimal_bonus(start, debt) ==
  IF IsNaT(start) THEN 0
  ELSE IF in_optimal_band(body_clock_hour_part(start, debt) * MinutesPerHour
                            + body_clock_minute_part(start, debt), MinutesPerHour)
       THEN OptimalBonus ELSE 0

\* ------------------------------------------------ calculate_rest_time_between_games
PostGameMinutes    == 60
ExtraTravelMinutes == 90
RestThresholdHours == 20
RestPenalty        == -10

\* distance_miles / 500 mph in minutes between two resolved locations
\* (approximate great-circle distances of the venues above, to the minute).
FlightTable ==
  [ NY  |-> [NY |-> 0,   LA |-> 294, DEN |-> 196, PHX |-> 257, STJ |-> 138,
             MIA |-> 131, CHI |-> 86,  DAL |-> 165],
    LA  |-> [NY |-> 294, LA |-> 0,   DEN |-> 100, PHX |-> 43,  STJ |-> 400,
             MIA |-> 281, CHI |-> 209, DAL |-> 149],
    DEN |-> [NY |-> 196, LA |-> 100, DEN |-> 0,   PHX |-> 70,  STJ |-> 317,
             MIA |-> 207, CHI |-> 110, DAL |-> 80],
    PHX |-> [NY |-> 257, LA |-> 43,  DEN |-> 70,  PHX |-> 0,   STJ |-> 384,
             MIA |-> 237, CHI |-> 174, DAL |-> 106],
    STJ |-> [NY |-> 138, LA |-> 400, DEN |-> 317, PHX |-> 384, STJ |-> 0,
             MIA |-> 264, CHI |-> 216, DAL |-> 300],
    MIA |-> [NY |-> 131, LA |-> 281, DEN |-> 207, PHX |-> 237, STJ |-> 264,
             MIA |-> 0,   CHI |-> 143, DAL |-> 133],
    CHI |-> [NY |-> 86,  LA |-> 209, DEN |-> 110, PHX |-> 174, STJ |-> 216,
             MIA |-> 143, CHI |-> 0,   DAL |-> 96],
    DAL |-> [NY |-> 165, LA |-> 149, DEN |-> 80,  PHX |-> 106, STJ |-> 300,
             MIA |-> 133, CHI |-> 96,  DAL |-> 0] ]

CityKey(city) ==
  CASE city = "New York"    -> "NY"
    [] city = "Los Angeles" -> "LA"
    [] city = "Denver"      -> "DEN"
    [] city = "Phoenix"     -> "PHX"
    [] city = "Miami"       -> "MIA"
    [] city = "Chicago"     -> "CHI"
    [] city = "Dallas"      -> "DAL"
    [] city = "St. John's"  -> "STJ"

\* What the two geolocator.geocode calls of one pair (lines 178-179) can do:
\* both give coordinates; one of them gives None; the first raises (timeout,
\* service error) and the second is then not made.
GeocodeOutcomes ==
  { <<"coords", "coords">>, <<"coords", "none">>, <<"none", "coords">>,
    <<"raised", "not_called">> }

\* A place name without a city resolves to nothing.
geocode_possible(cur, nxt, o) ==
  /\ (cur.city = "" => o[1] # "coords")
  /\ (nxt.city = "" => o[2] # "coords")

\* The place name of a row, lines 174-175.
location(row) == <<row.city, row.state, row.country>>

\* The calls that pair idx makes to the resolver, in order.
pair_calls(gs, idx, o) ==
  IF o[2] = "not_called"
    THEN <<[idx |-> idx, location |-> location(gs[idx]), result |-> o[1]]>>
  ELSE <<[idx |-> idx, location |-> location(gs[idx]), result |-> o[1]],
         [idx |-> idx, location |-> location(gs[idx + 1]), result |-> o[2]]>>

\* The calls made by the pairs 1..k of the loop.
RECURSIVE calls_upto(_, _, _)
calls_upto(gs, outcome, k) ==
  IF k < 1 THEN <<>>
  ELSE calls_upto(gs, outcome, k - 1) \o pair_calls(gs, k, outcome[k])

\* if current_coords and next_coords (line 181)
both_resolved(o) == o = <<"coords", "coords">>

\* flight_time_hours in minutes: the great-circle time when both venues
\* resolved (geocoded), 0 on the else branch and in the except clause.
\* Faulty variant: the great-circle time used whether or not the venues resolved
flight_time_minutes_ignores_failure(cur, nxt, geocoded) ==
  IF cur.city # "" /\ nxt.city # ""
    THEN FlightTable[CityKey(cur.city)][CityKey(nxt.city)]
  ELSE 0

flight_time_minutes(cur, nxt, geocoded) ==
  IF geocoded /\ cur.city # "" /\ nxt.city # ""
    THEN FlightTable[CityKey(cur.city)][CityKey(nxt.city)]
  ELSE 0

\* Lines 170-206 raise outside any try block when the current row has no local
\* start (NaT.astimezone is not supported) or the next row has no timezone
\* (ZoneInfo of a missing value).
rest_pair_raises(cur, nxt) ==
  \/ IsNaT(cur.game_time_local_timezone)
  \/ ZoneInfoRaises(nxt.timezone)

\* rest_time_hours of the pair, in minutes; NaT (NaN) when the next start is
\* missing.
rest_time_minutes(cur, nxt, geocoded) ==
  IF IsNaT(nxt.game_time_local_timezone) THEN NaT
  ELSE << Val(nxt.game_time_local_timezone)
          - ( Val(cur.game_time_local_timezone) + cur.LOG + PostGameMinutes
              + flight_time_minutes(cur, nxt, geocoded) + ExtraTravelMinutes ) >>

\* Faulty variant: the threshold taken inclusively (exactly 20 hours penalised)
rest_penalty_inclusive(rest) ==
  IF ~IsNaT(rest) /\ Val(rest) <= RestThresholdHours * MinutesPerHour
    THEN RestPenalty ELSE 0

rest_penalty(rest) ==
  IF ~IsNaT(rest) /\ Val(rest) < RestThresholdHours * MinutesPerHour
    THEN RestPenalty ELSE 0

rest_time_escapes(gs) ==
  \/ Len(gs) = 0
  \/ \E i \in 1..(Len(gs) - 1) : rest_pair_raises(gs[i], gs[i + 1])

\* The pair at which the loop stops: the first one that raises, the last one
\* when none does.
last_pair_reached(gs) ==
  IF \E i \in 1..(Len(gs) - 1) : rest_pair_raises(gs[i], gs[i + 1])
    THEN CHOOSE i \in 1..(Len(gs) - 1) :
           /\ rest_pair_raises(gs[i], gs[i + 1])
           /\ \A j \in 1..(i - 1) : ~rest_pair_raises(gs[j], gs[j + 1])
  ELSE Len(gs) - 1

\* ------------------------------------------------------------ calculate_sleep_score
Baseline  == 100
UpperClip == 100

sleep_score_sum(c, i) ==
  Baseline + c.penalty_multiple_games[i] + c.penalty_high_altitude[i]
  + c.penalty_nightlife_city[i] + c.penalty_sleep_debt[i]
  + c.penalty_handicapped_hours[i] + c.bonus_optimal_hours[i]
  + c.penalty_rest_time[i]

\* Faulty variant: the clip of line 239 left out
clip_upper_none(x) == x

clip_upper(x) == Min(x, UpperClip)

\* Faulty variant: a score that is also floored at 0
sleep_score_floored(c, i) == Max(0, clip_upper(sleep_score_sum(c, i)))

sleep_score(c, i) == clip_upper(sleep_score_sum(c, i))

\* ================================================================ the machine
NoCols ==
  [ penalty_multiple_games    |-> <<>>, penalty_high_altitude |-> <<>>,
    penalty_nightlife_city    |-> <<>>, running_sleep_debt    |-> <<>>,
    penalty_sleep_debt        |-> <<>>, penalty_handicapped_hours |-> <<>>,
    bonus_optimal_hours       |-> <<>>, rest_time_hours       |-> <<>>,
    penalty_rest_time         |-> <<>>, sleep_score           |-> <<>> ]

Seasons == {"winter", "summer"}

InitAt(S) ==
  /\ games = <<>>
  /\ cols = NoCols
  /\ pc = "load"
  /\ now_season \in S
  /\ error = ""
  /\ geocode_calls = <<>>
  /\ frame = <<>>
  /\ teams = <<>>
  /\ sleep_scores = <<>>

\* The run may happen in either daylight-saving regime.
Init == InitAt(Seasons)

\* One more row of the cleaned schedule is read.  Starts holds pairs
\* <<step, tod>>: the row's date is the previous row's plus step (the first
\* row is day 0), its Eastern kickoff time-of-day is tod.
LoadRow(maxn, Starts, Venues, Logs) ==
  /\ pc = "load"
  /\ Len(games) < maxn
  /\ \E st \in Starts, v \in Venues, log \in Logs :
       LET day == IF games = <<>> THEN 0
                  ELSE games[Len(games)].date_converted + st[1]
       IN games' = Append(games, Row(day, st[2], v, log))
  /\ UNCHANGED <<cols, pc, now_season, error, geocode_calls, frame, teams, sleep_scores>>

\* main(): the frame is complete, the scoring functions start.
StartScoring ==
  /\ pc = "load"
  /\ pc' = "multiple_games_in_short_timeframe"
  /\ UNCHANGED <<games, cols, now_season, error, geocode_calls, frame, teams, sleep_scores>>

Rows == 1..Len(games)

multiple_games_in_short_timeframe ==
  /\ pc = "multiple_games_in_short_timeframe"
  /\ cols' = [cols EXCEPT !.penalty_multiple_games =
                [i \in Rows |-> density_penalty(games, i)]]
  /\ pc' = "playing_at_high_altitude"
  /\ UNCHANGED <<games, now_season, error, geocode_calls, frame, teams, sleep_scores>>

playing_at_high_altitude ==
  /\ pc = "playing_at_high_altitude"
  /\ cols' = [cols EXCEPT !.penalty_high_altitude =
                [i \in Rows |-> high_altitude_penalty(games[i].city)]]
  /\ pc' = "night_spend_in_known_party_nightlife_city"
  /\ UNCHANGED <<games, now_season, error, geocode_calls, frame, teams, sleep_scores>>

night_spend_in_known_party_nightlife_city ==
  /\ pc = "night_spend_in_known_party_nightlife_city"
  /\ cols' = [cols EXCEPT !.penalty_nightlife_city =
                [i \in Rows |-> nightlife_penalty(games[i].city)]]
  /\ pc' = "calculate_running_sleep_debt"
  /\ UNCHANGED <<games, now_season, error, geocode_calls, frame, teams, sleep_scores>>

calculate_running_sleep_debt ==
  /\ pc = "calculate_running_sleep_debt"
  /\ IF sleep_debt_escapes(games, now_season)
       THEN /\ pc' = "raised"
            /\ error' = "calculate_running_sleep_debt"
            /\ UNCHANGED cols
       ELSE /\ cols' = [cols EXCEPT !.running_sleep_debt =
                          sleep_debt_list(games, now_season, Len(games))]
            /\ pc' = "sleep_debt_penalty"
            /\ UNCHANGED error
  /\ UNCHANGED <<games, now_season, geocode_calls, frame, teams, sleep_scores>>

sleep_debt_penalty ==
  /\ pc = "sleep_debt_penalty"
  /\ cols' = [cols EXCEPT !.penalty_sleep_debt =
                [i \in Rows |-> debt_penalty(cols.running_sleep_debt[i])]]
  /\ pc' = "game_time_is_played_during_handicapped_performance_hours"
  /\ UNCHANGED <<games, now_season, error, geocode_calls, frame, teams, sleep_scores>>

game_time_is_played_during_handicapped_performance_hours ==
  /\ pc = "game_time_is_played_during_handicapped_performance_hours"
  /\ cols' = [cols EXCEPT !.penalty_handicapped_hours =
                [i \in Rows |-> handicapped_penalty(games[i].start_datetime_ET,
                                                    cols.running_sleep_debt[i])]]
  /\ pc' = "game_time_is_in_played_during_optimal_performance_hours"
  /\ UNCHANGED <<games, now_season, error, geocode_calls, frame, teams, sleep_scores>>

game_time_is_in_played_during_optimal_performance_hours ==
  /\ pc = "game_time_is_in_played_during_optimal_performance_hours"
  /\ cols' = [cols EXCEPT !.bonus_optimal_hours =
                [i \in Rows |-> optimal_bonus(games[i].start_datetime_ET,
                                              cols.running_sleep_debt[i])]]
  /\ pc' = "calculate_rest_time_between_games"
  /\ UNCHANGED <<games, now_season, error, geocode_calls, frame, teams, sleep_scores>>

calculate_rest_time_between_games ==
  /\ pc = "calculate_rest_time_between_games"
  /\ \E outcome \in [1..(Len(games) - 1) -> GeocodeOutcomes] :
       /\ \A i \in 1..(Len(games) - 1) :
            geocode_possible(games[i], games[i + 1], outcome[i])
       /\ geocode_calls' = geocode_calls \o calls_upto(games, outcome, last_pair_reached(games))
       /\ IF rest_time_escapes(games)
            THEN /\ pc' = "raised"
                 /\ error' = "calculate_rest_time_between_games"
                 /\ UNCHANGED cols
            ELSE LET rest == [i \in Rows |->
                               IF i = Len(games) THEN NaT
                               ELSE rest_time_minutes(games[i], games[i + 1],
                                                      both_resolved(outcome[i]))]
                 IN /\ cols' = [cols EXCEPT
                                  !.rest_time_hours = rest,
                                  !.penalty_rest_time =
                                     [i \in Rows |-> IF i = Len(games) THEN 0
                                                     ELSE rest_penalty(rest[i])]]
                    /\ pc' = "calculate_sleep_score"
                    /\ UNCHANGED error
  /\ UNCHANGED <<games, now_season, frame, teams, sleep_scores>>

calculate_sleep_score ==
  /\ pc = "calculate_sleep_score"
  /\ cols' = [cols EXCEPT !.sleep_score = [i \in Rows |-> sleep_score(cols, i)]]
  /\ pc' = "done"
  /\ UNCHANGED <<games, now_season, error, geocode_calls, frame, teams, sleep_scores>>

\* The calls of main() in their order, cut into the stretches that the
\* specifications below follow: up to the density stage, on to the static
\* modifiers, to the debt penalty, to the circadian stages, and to the end.
ScoringToDensity ==
  \/ StartScoring
  \/ multiple_games_in_short_timeframe

ScoringToStatic ==
  \/ ScoringToDensity
  \/ playing_at_high_altitude
  \/ night_spend_in_known_party_nightlife_city

ScoringToDebt ==
  \/ ScoringToStatic
  \/ calculate_running_sleep_debt
  \/ sleep_debt_penalty

ScoringToCircadian ==
  \/ ScoringToDebt
  \/ game_time_is_played_during_handicapped_performance_hours
  \/ game_time_is_in_played_during_optimal_performance_hours

Scoring ==
  \/ ScoringToCircadian
  \/ calculate_rest_time_between_games
  \/ calculate_sleep_score

\* ------------------------------------- apply_sleep_score_calculations (multi-team)
\* One row of the multi-team frame: a cleaned row from the point of view of
\* one team.
TeamRow(team, day, tod, v, log) ==
  [ Team                     |-> team,
    date_converted           |-> day,
    start_datetime_ET        |-> combine_date_time(day, tod),
    game_time_local_timezone |-> convert_to_local(combine_date_time(day, tod),
                                                  Venue[v].timezone),
    city     |-> Venue[v].city,
    state    |-> Venue[v].state,
    country  |-> Venue[v].country,
    timezone |-> Venue[v].timezone,
    LOG      |-> log ]

\* One more row of the multi-team schedule is read (the frame is in date
\* order: the row's date is the previous row's plus the step).
LoadFrameRow(maxn, Teams, Starts, Venues, Logs) ==
  /\ pc = "load"
  /\ games = <<>>
  /\ Len(frame) < maxn
  /\ \E team \in Teams, st \in Starts, v \in Venues, log \in Logs :
       LET day == IF frame = <<>> THEN 0
                  ELSE frame[Len(frame)].date_converted + st[1]
       IN frame' = Append(frame, TeamRow(team, day, st[2], v, log))
  /\ UNCHANGED <<games, cols, pc, now_season, error, geocode_calls, teams, sleep_scores>>

\* games_df['Team'].unique(): the teams in the order of their first row.
RECURSIVE unique(_)
unique(fr) ==
  IF fr = <<>> THEN <<>>
  ELSE LET before == unique(SubSeq(fr, 1, Len(fr) - 1))
           team == fr[Len(fr)].Team
       IN IF \E k \in 1..Len(before) : before[k] = team THEN before
          ELSE Append(before, team)

\* games_df[games_df['Team'] == team].copy() with its index reset.
team_games(fr, team) == SelectSeq(fr, LAMBDA r : r.Team = team)

\* Lines 19-20: the teams are listed, the result frame starts empty.
apply_sleep_score_calculations ==
  /\ pc = "load"
  /\ games = <<>>
  /\ teams' = unique(frame)
  /\ sleep_scores' = <<>>
  /\ pc' = "for_team"
  /\ UNCHANGED <<games, cols, now_season, error, geocode_calls, frame>>

\* Lines 22-24: the next team's rows are taken out of the frame; the nine
\* scoring functions then run on them.
for_team ==
  /\ pc = "for_team"
  /\ teams # <<>>
  /\ games' = team_games(frame, Head(teams))
  /\ cols' = NoCols
  /\ pc' = "multiple_games_in_short_timeframe"
  /\ UNCHANGED <<now_season, error, geocode_calls, frame, teams, sleep_scores>>

\* The scored row i of the team in hand: its input columns and its deltas.
scored_row(gs, c, i) == [game |-> gs[i], scores |-> [k \in DOMAIN c |-> c[k][i]]]

\* Line 34: pd.concat([sleep_scores, team_games], ignore_index=True).
concat ==
  /\ pc = "done"
  /\ teams # <<>>
  /\ sleep_scores' = sleep_scores \o [i \in Rows |-> scored_row(games, cols, i)]
  /\ teams' = Tail(teams)
  /\ pc' = "for_team"
  /\ UNCHANGED <<games, cols, now_season, error, geocode_calls, frame>>

\* Line 36: return sleep_scores.
return_sleep_scores ==
  /\ pc = "for_team"
  /\ teams = <<>>
  /\ pc' = "returned"
  /\ UNCHANGED <<games, cols, now_season, error, geocode_calls, frame, teams, sleep_scores>>

\* The nine calls of lines 25-33.
TeamScoring ==
  \/ multiple_games_in_short_timeframe
  \/ playing_at_high_altitude
  \/ night_spend_in_known_party_nightlife_city
  \/ calculate_running_sleep_debt
  \/ sleep_debt_penalty
  \/ game_time_is_played_during_handicapped_performance_hours
  \/ game_time_is_in_played_during_optimal_performance_hours
  \/ calculate_rest_time_between_games
  \/ calculate_sleep_score

\* ----------------------------------------------- clean_data (multi-team cleaning)
\* team_info: the home venue of a team, "UNK" (empty city) for a name that
\* the table does not hold.
team_info(team_name) ==
  CASE team_name = "New York Knicks"    -> "NY"
    [] team_name = "Los Angeles Lakers" -> "LA"
    [] team_name = "Denver Nuggets"     -> "DEN"
    [] OTHER                            -> "UNK"

\* One line of nba_games.csv: a game with its visitor and its home team.
RawGame(day, tod, visitor, home, log) ==
  [Date |-> day, Start_ET |-> tod, Visitor |-> visitor, Home |-> home, LOG |-> log]

\* One more line of the schedule is read (lines 62-69).
LoadRawGame(maxn, Starts, Teams, Logs) ==
  /\ pc = "load"
  /\ games = <<>>
  /\ Len(frame) < maxn
  /\ \E st \in Starts, visitor \in Teams, home \in Teams, log \in Logs :
       /\ visitor # home
       /\ LET day == IF frame = <<>> THEN 0 ELSE frame[Len(frame)].Date + st[1]
          IN frame' = Append(frame, RawGame(day, st[2], visitor, home, log))
  /\ UNCHANGED <<games, cols, pc, now_season, error, geocode_calls, teams, sleep_scores>>

\* Lines 191-207 and 211-227: the two rows of game number id.
home_dict(g, id) ==
  [Game_ID |-> id, Date |-> g.Date, Team |-> g.Home, Opponent |-> g.Visitor,
   Home_Game |-> TRUE, Home |-> g.Home, Visitor |-> g.Visitor, LOG |-> g.LOG,
   start_datetime_ET |-> combine_date_time(g.Date, g.Start_ET)]

visitor_dict(g, id) ==
  [Game_ID |-> id, Date |-> g.Date, Team |-> g.Visitor, Opponent |-> g.Home,
   Home_Game |-> FALSE, Home |-> g.Home, Visitor |-> g.Visitor, LOG |-> g.LOG,
   start_datetime_ET |-> combine_date_time(g.Date, g.Start_ET)]

\* Lines 188-232: the home row and the visitor row of every game, in order.
RECURSIVE records(_, _)
records(raw, n) ==
  IF n < 1 THEN <<>>
  ELSE records(raw, n - 1) \o <<home_dict(raw[n], n - 1), visitor_dict(raw[n], n - 1)>>

\* Lines 237-243: city, state and country of a team's entry in team_info.
get_team_location(team_name) ==
  [city    |-> Venue[team_info(team_name)].city,
   state   |-> Venue[team_info(team_name)].state,
   country |-> Venue[team_info(team_name)].country]

\* Faulty variant: the location of the venue, the home team's city
location_info_of_venue(rec) == get_team_location(rec.Home)

\* Line 245: expanded_df["Team"].apply(get_team_location).
location_info(rec) == get_team_location(rec.Team)

\* Lines 255-269: what get_timezone can return for a location: the zone of
\* the place, or None when the geocoder finds nothing or raises; None for an
\* empty city.
get_timezone_results(loc) ==
  IF loc.city = "" THEN {NaT}
  ELSE {NaT, Venue[CityKey(loc.city)].timezone}

\* Lines 272-277: the distinct locations of the expanded rows.
unique_locs(recs) == {location_info(recs[k]) : k \in 1..Len(recs)}

\* LOG as lines 302-305 make it: "2:00" where missing, then to_timedelta of
\* "0:" + LOG, which reads the first number as minutes.
clean_LOG(log) == IF IsNaT(log) THEN 2 ELSE log[1]

\* One row of the frame that clean_data writes.
cleaned_row(rec, loc_map) ==
  [ Game_ID   |-> rec.Game_ID,
    Home_Game |-> rec.Home_Game,
    Home      |-> rec.Home,
    Visitor   |-> rec.Visitor,
    Team      |-> rec.Team,
    date_converted           |-> rec.Date,
    start_datetime_ET        |-> rec.start_datetime_ET,
    game_time_local_timezone |-> convert_to_local(rec.start_datetime_ET,
                                                  loc_map[location_info(rec)]),
    city     |-> location_info(rec).city,
    state    |-> location_info(rec).state,
    country  |-> location_info(rec).country,
    timezone |-> loc_map[location_info(rec)],
    LOG      |-> clean_LOG(rec.LOG) ]

\* clean_data: the schedule read so far is expanded, located and written.
clean_data ==
  /\ pc = "load"
  /\ games = <<>>
  /\ LET recs == records(frame, Len(frame))
     IN \E loc_map \in [unique_locs(recs) -> {NaT} \cup {Venue[v].timezone : v \in DOMAIN Venue}] :
          /\ \A loc \in unique_locs(recs) : loc_map[loc] \in get_timezone_results(loc)
          /\ frame' = [k \in 1..Len(recs) |-> cleaned_row(recs[k], loc_map)]
  /\ pc' = "cleaned"
  /\ UNCHANGED <<games, cols, now_season, error, geocode_calls, teams, sleep_scores>>

\* main(), lines 73-76: the cleaned frame is read back and handed to
\* apply_sleep_score_calculations.
main_apply_sleep_score_calculations ==
  /\ pc = "cleaned"
  /\ teams' = unique(frame)
  /\ sleep_scores' = <<>>
  /\ pc' = "for_team"
  /\ UNCHANGED <<games, cols, now_season, error, geocode_calls, frame>>

\* ------------------------------------------------ main.py (single-team draft)
\* Offsets from UTC are in tenths of an hour, as get_timezone_diff formats
\* them ("+5.5"); scores are whole numbers, 20 per hour being 2 per tenth.
RESTED_THRESHOLD      == 100
NIGHTLIFE_PENALTY     == -10
TIMEZONE_HOUR_PENALTY == -20
REST_DAY_BONUS        == 20
BACK_TO_BACK_PENALTY  == -30
GAME_DENSITY_PENALTY  == -20
CIRCADIAN_PENALTY     == -80

NIGHTLIFE_CITIES ==
  {"Los Angeles, California", "Miami, Florida", "Chicago, Illinois",
   "Dallas, Texas", "Denver, Colorado"}

\* The offset from UTC of a game location, in tenths of an hour.
DraftOffset(game_location) ==
  CASE game_location = "Los Angeles, California" -> -80
    [] game_location = "New York, New York"      -> -50
    [] OTHER                                -> -60

\* get_timezone_diff: the offset of the location, or None when the geocoder
\* or the timezone finder finds nothing or anything raises.
get_timezone_diff(game_location) == {NaT, <<DraftOffset(game_location)>>}

\* One line of the schedule of the draft; Start_ET is the hour that
\* parse_game_time reads, Timezone_Difference is filled by main.
DraftRow(day, hour, game_location) ==
  [Date |-> day, Start_ET |-> hour, Game_Location |-> game_location,
   Timezone_Difference |-> NaT]

calculate_timezone_impact(row, prev_row) ==
  IF IsNaT(row.Timezone_Difference) \/ IsNaT(prev_row.Timezone_Difference)
  THEN 0
  ELSE (Abs(Val(row.Timezone_Difference) - Val(prev_row.Timezone_Difference))
          * TIMEZONE_HOUR_PENALTY) \div 10

\* Lines 83-87: the windows (days, threshold).
windows == {<<6, 4>>, <<4, 3>>, <<8, 5>>}

\* Lines 75-80: the dates of df.iloc[max(0, current_idx-7):current_idx+1],
\* the current row included, then curr_date appended.
prev_games(df, current_idx) ==
  [k \in 1..(current_idx - Max(1, current_idx - 7) + 2) |->
     IF k = current_idx - Max(1, current_idx - 7) + 2
     THEN df[current_idx].Date
     ELSE df[Max(1, current_idx - 7) + k - 1].Date]

\* Lines 90-93: the entries of prev_games at most days - 1 days back.
window(df, current_idx, days) ==
  {k \in DOMAIN prev_games(df, current_idx) :
     df[current_idx].Date - prev_games(df, current_idx)[k] <= days - 1}

calculate_density_penalties(df, current_idx) ==
  GAME_DENSITY_PENALTY
    * Cardinality({w \in windows : Cardinality(window(df, current_idx, w[1])) >= w[2]})

\* Lines 106-127: -80 when the start hour, read on the previous game's
\* clock, lies in 12..16; 0 when the hour or an offset is missing (the
\* exception is caught).
calculate_circadian_impact(row, prev_row) ==
  IF IsNaT(row.Start_ET) \/ IsNaT(row.Timezone_Difference)
     \/ IsNaT(prev_row.Timezone_Difference)
  THEN 0
  ELSE LET curr_hour_prev_tz ==
             (Val(row.Start_ET) * 10 + Val(prev_row.Timezone_Difference)
                - Val(row.Timezone_Difference)) % 240
       IN IF 120 <= curr_hour_prev_tz /\ curr_hour_prev_tz <= 160
          THEN CIRCADIAN_PENALTY ELSE 0

\* Lines 135-158: the score before it is clamped.
draft_score(df, current_idx) ==
  LET row == df[current_idx]
      prev_row == df[current_idx - 1]
  IN RESTED_THRESHOLD
     + (IF row.Game_Location \in NIGHTLIFE_CITIES THEN NIGHTLIFE_PENALTY ELSE 0)
     + calculate_timezone_impact(row, prev_row)
     + (row.Date - prev_row.Date - 1) * REST_DAY_BONUS
     + (IF row.Date - prev_row.Date = 1 THEN BACK_TO_BACK_PENALTY ELSE 0)
     + calculate_density_penalties(df, current_idx)
     + calculate_circadian_impact(row, prev_row)

\* Faulty variant: no lower clamp
clamp_no_floor(score) == Min(100, score)

\* Line 160: max(0, min(100, score)).
clamp(score) == Max(0, Min(100, score))

\* calculate_sleep_score of main.py; prev_row is None for the first row.
draft_calculate_sleep_score(df, current_idx) ==
  IF current_idx = 1 THEN RESTED_THRESHOLD
  ELSE clamp(draft_score(df, current_idx))

\* main, lines 225-227: one more line of the schedule is read.
LoadDraftRow(maxn, Starts, Locations) ==
  /\ pc = "load"
  /\ frame = <<>>
  /\ Len(games) < maxn
  /\ \E st \in Starts, game_location \in Locations :
       LET day == IF games = <<>> THEN 0 ELSE games[Len(games)].Date + st[1]
       IN games' = Append(games, DraftRow(day, st[2], game_location))
  /\ UNCHANGED <<cols, pc, now_season, error, geocode_calls, frame, teams, sleep_scores>>

\* main, lines 229-233: the column of timezone differences, one lookup per row.
draft_timezone_column ==
  /\ pc = "load"
  /\ frame = <<>>
  /\ games # <<>>
  /\ \E tz \in [1..Len(games) -> {NaT} \cup {<<DraftOffset(games[k].Game_Location)>> : k \in 1..Len(games)}] :
       /\ \A k \in 1..Len(games) : tz[k] \in get_timezone_diff(games[k].Game_Location)
       /\ games' = [k \in 1..Len(games) |-> [games[k] EXCEPT !.Timezone_Difference = tz[k]]]
  /\ sleep_scores' = <<>>
  /\ pc' = "draft_loop"
  /\ UNCHANGED <<cols, now_season, error, geocode_calls, frame, teams>>

\* main, lines 239-242: one turn of the loop over the rows.
draft_score_row ==
  /\ pc = "draft_loop"
  /\ Len(sleep_scores) < Len(games)
  /\ sleep_scores' = Append(sleep_scores,
                            draft_calculate_sleep_score(games, Len(sleep_scores) + 1))
  /\ UNCHANGED <<games, cols, pc, now_season, error, geocode_calls, frame, teams>>

\* main, line 244: df['Sleep Score'] = sleep_scores.
draft_assign_scores ==
  /\ pc = "draft_loop"
  /\ Len(sleep_scores) = Len(games)
  /\ pc' = "draft_done"
  /\ UNCHANGED <<games, cols, now_season, error, geocode_calls, frame, teams, sleep_scores>>

\* ------------------------------------------------------------ specifications
\* Spec: whole schedules over venues with and without penalties, evening
\* kickoffs on consecutive days.
LoadGame ==
  LoadRow(MaxGames, {<<1, <<1170>>>>, <<1, <<1200>>>>}, {"LA", "STJ", "DEN", "UNK"}, {120})

Next == LoadGame \/ Scoring

Spec == Init /\ [][Next]_vars

\* SpecDensity: schedules that differ in their dates only (sorted or not),
\* followed through the density stage.
LoadDensity ==
  LoadRow(MaxGamesDensity,
          {<<0, <<1170>>>>, <<1, <<1170>>>>, <<2, <<1170>>>>, <<3, <<1170>>>>,
           <<8, <<1170>>>>, <<-5, <<1170>>>>},
          {"NY"}, {120})

NextDensity == LoadDensity \/ ScoringToDensity

SpecDensity == InitAt({"winter"}) /\ [][NextDensity]_vars

\* SpecDebt: schedules between two zones an hour and a half apart, with missing
\* timezones and missing kickoff times, and kickoffs less and more than whole
\* days apart (also out of order within a day), followed through the debt
\* penalty.
LoadDebt ==
  LoadRow(MaxGamesDebt,
          {<<0, <<780>>>>, <<1, <<780>>>>, <<1, <<1170>>>>, <<2, <<780>>>>, <<1, NaT>>},
          {"NY", "STJ", "NY_NOTZ"}, {120})

NextDebt == LoadDebt \/ ScoringToDebt

SpecDebt == InitAt({"winter"}) /\ [][NextDebt]_vars

\* SpecCirc: kickoffs on and around the edges of the two body-clock bands, at
\* venues three hours apart, followed through the circadian stages.
LoadCirc ==
  LoadRow(MaxGamesCirc,
          {<<1, NaT>>, <<1, <<719>>>>, <<1, <<720>>>>, <<1, <<960>>>>, <<1, <<961>>>>,
           <<1, <<962>>>>, <<1, <<1140>>>>, <<1, <<1200>>>>, <<1, <<1201>>>>},
          {"NY", "LA"}, {120})

NextCirc == LoadCirc \/ ScoringToCircadian

SpecCirc == InitAt({"winter"}) /\ [][NextCirc]_vars

\* SpecStatic: schedules over the altitude city, the four nightlife cities
\* and one city that is neither, followed through the static modifiers.
LoadStatic ==
  LoadRow(MaxGamesStatic, {<<1, <<1170>>>>}, {"DEN", "LA", "MIA", "CHI", "DAL", "NY"}, {120})

NextStatic == LoadStatic \/ ScoringToStatic

SpecStatic == InitAt({"winter"}) /\ [][NextStatic]_vars

\* SpecMulti: frames of two teams' rows in date order, the teams' rows
\* interleaved or not, with and without a venue lacking its timezone.
LoadFrame ==
  LoadFrameRow(MaxFrameRows, {"BOS", "LAL"}, {<<0, <<1170>>>>, <<1, <<1170>>>>},
               {"LA", "NY_NOTZ"}, {120})

NextMulti ==
  \/ LoadFrame
  \/ apply_sleep_score_calculations
  \/ for_team
  \/ TeamScoring
  \/ concat
  \/ return_sleep_scores

SpecMulti == InitAt({"winter"}) /\ [][NextMulti]_vars

\* SpecEval: schedules between zones that do and do not observe daylight
\* saving, scored at an instant in either regime, followed through the debt
\* penalty.
LoadEval ==
  LoadRow(MaxGamesEval, {<<1, <<1170>>>>, <<2, <<1170>>>>}, {"NY", "PHX", "LA"}, {120})

NextEval == LoadEval \/ ScoringToDebt

SpecEval == Init /\ [][NextEval]_vars

\* SpecScenario: short road trips from New York to Los Angeles and back, with
\* late-morning and evening kickoffs, a day or eight days apart.
LoadScenario ==
  LoadRow(MaxGamesScenario, {<<1, <<660>>>>, <<1, <<1170>>>>, <<8, <<1170>>>>},
          {"NY", "LA"}, {120})

NextScenario == LoadScenario \/ Scoring

SpecScenario == InitAt({"winter"}) /\ [][NextScenario]_vars

\* SpecClean: schedules of games between two teams three hours apart and a
\* team unknown to team_info, cleaned and then scored team by team.
LoadSchedule ==
  LoadRawGame(MaxRawGames, {<<1, <<1170>>>>},
              {"New York Knicks", "Los Angeles Lakers", "Seattle SuperSonics"}, {<<2, 0>>})

NextClean ==
  \/ LoadSchedule
  \/ clean_data
  \/ main_apply_sleep_score_calculations
  \/ for_team
  \/ TeamScoring
  \/ concat
  \/ return_sleep_scores

SpecClean == InitAt({"winter"}) /\ [][NextClean]_vars

\* SpecDraft: the single-team draft on schedules of back-to-back and spaced
\* games in two cities three hours apart.
LoadDraft ==
  LoadDraftRow(MaxDraftGames, {<<1, <<19>>>>, <<3, <<13>>>>},
               {"Los Angeles, California", "New York, New York"})

NextDraft ==
  \/ LoadDraft
  \/ draft_timezone_column
  \/ draft_score_row
  \/ draft_assign_scores

SpecDraft == InitAt({"winter"}) /\ [][NextDraft]_vars

\* ==================================================================== claims
Done == pc = "done"

\* The sum of the seven penalty/bonus columns of row i, as written.
DeltaSum(i) ==
  cols.penalty_multiple_games[i] + cols.penalty_high_altitude[i]
  + cols.penalty_nightlife_city[i] + cols.penalty_sleep_debt[i]
  + cols.penalty_handicapped_hours[i] + cols.bonus_optimal_hours[i]
  + cols.penalty_rest_time[i]

\* C1: once calculate_sleep_score has written sleep_score, every row's score
\* is at most 100, whatever the seven penalty/bonus columns hold.
C1_ClippingLaw ==
  Done => \A i \in Rows : cols.sleep_score[i] <= 100

\* C1 witness: a scored row whose deltas sum to more than 0, so that the clip
\* is what keeps the score at 100.
C1_Witness ==
  Done /\ \E i \in Rows : DeltaSum(i) > 0 /\ cols.sleep_score[i] = 100

\* C2: the score is min(100, 100 + the seven deltas); with a sum of deltas
\* <= 0 it is exactly 100 plus the sum, with no lower bound.
C2_ScoreFormula ==
  Done => \A i \in Rows :
    /\ cols.sleep_score[i] = (IF 100 + DeltaSum(i) <= 100 THEN 100 + DeltaSum(i) ELSE 100)
    /\ (DeltaSum(i) <= 0 => cols.sleep_score[i] = 100 + DeltaSum(i))

\* C2 witness: a row scored below 0.
C2_Witness ==
  Done /\ \E i \in Rows : cols.sleep_score[i] < 0 /\ cols.sleep_score[i] = 100 + DeltaSum(i)

\* ---------------------------------------------------------- sleep-debt claims
\* The accumulator has returned: running_sleep_debt holds a value per row.
DebtWritten == Len(games) >= 1 /\ Len(cols.running_sleep_debt) = Len(games)

Debt(i) == cols.running_sleep_debt[i]

\* Both timezones of the step into row i resolve, so tz_diff (minutes) exists.
TzResolved(i) == ~IsNaT(games[i - 1].timezone) /\ ~IsNaT(games[i].timezone)
TzDiff(i) == utcoffset(games[i].timezone, now_season)
             - utcoffset(games[i - 1].timezone, now_season)
Candidate(i) == Debt(i - 1) + TzDiff(i)

StartsDefined(i) ==
  ~IsNaT(games[i - 1].start_datetime_ET) /\ ~IsNaT(games[i].start_datetime_ET)
StepComputes(i) == TzResolved(i) /\ StartsDefined(i)

\* The whole days between the two kickoffs, truncated toward zero: the one
\* integer d of the sign of the difference with |d| days <= |difference| <
\* (|d| + 1) days.
ElapsedDays(i) ==
  LET diff == Val(games[i].start_datetime_ET) - Val(games[i - 1].start_datetime_ET)
  IN CHOOSE d \in -40..40 :
       /\ Abs(d) * 1440 <= Abs(diff)
       /\ Abs(diff) < (Abs(d) + 1) * 1440
       /\ (diff >= 0 => d >= 0)
       /\ (diff <= 0 => d <= 0)

\* C3: state[0] = 0, and every step that does not fail gives
\* max(candidate - elapsed_days, 0) for a positive candidate,
\* min(candidate + elapsed_days, 0) for a negative one and 0 for a zero one
\* (debts in minutes, a day of decay being one hour).
C3_Fold ==
  DebtWritten =>
    /\ Debt(1) = 0
    /\ \A i \in 2..Len(games) :
         StepComputes(i) =>
           Debt(i) = (IF Candidate(i) > 0 THEN Max(Candidate(i) - 60 * ElapsedDays(i), 0)
                      ELSE IF Candidate(i) < 0 THEN Min(Candidate(i) + 60 * ElapsedDays(i), 0)
                      ELSE 0)

\* C3 witness: a computed step between kickoffs that lie a negative fraction
\* of a day apart (truncation and floor differ) with a nonzero candidate, and
\* a computed step whose decay took whole days off the candidate.
C3_Witness ==
  /\ DebtWritten
  /\ \E i \in 2..Len(games) :
       /\ StepComputes(i) /\ Candidate(i) # 0
       /\ Val(games[i].start_datetime_ET) < Val(games[i - 1].start_datetime_ET)
  /\ \E i \in 2..Len(games) :
       StepComputes(i) /\ Candidate(i) > 0 /\ ElapsedDays(i) >= 1 /\ Debt(i) < Candidate(i)

\* C4 as claimed: at every index whose candidate exists, a positive candidate
\* gives state[i] >= 0 and a negative one state[i] <= 0.
C4_AsClaimed ==
  DebtWritten =>
    \A i \in 2..Len(games) :
      TzResolved(i) =>
        /\ (Candidate(i) > 0 => Debt(i) >= 0)
        /\ (Candidate(i) < 0 => Debt(i) <= 0)

\* C4 (amended): at every index whose step does not fail, a positive
\* candidate gives state[i] >= 0 and a negative one state[i] <= 0.
C4_NoOvershoot ==
  DebtWritten =>
    \A i \in 2..Len(games) :
      StepComputes(i) =>
        /\ (Candidate(i) > 0 => Debt(i) >= 0)
        /\ (Candidate(i) < 0 => Debt(i) <= 0)

\* C4 witness: a step whose decay is larger than the candidate, stopped at 0.
C4_Witness ==
  /\ DebtWritten
  /\ \E i \in 2..Len(games) :
       /\ StepComputes(i) /\ Candidate(i) > 0
       /\ 60 * ElapsedDays(i) > Candidate(i) /\ Debt(i) = 0

\* C5 as claimed: state[i-1] > 0 and state[i] < 0 only if
\* elapsed_days < state[i-1] + tz_diff (hours).
C5_AsClaimed ==
  DebtWritten =>
    \A i \in 2..Len(games) :
      (Debt(i - 1) > 0 /\ Debt(i) < 0) => 60 * ElapsedDays(i) < Candidate(i)

\* C5 (amended): state[i-1] > 0 and state[i] < 0 only if the step did not
\* fail, the candidate state[i-1] + tz_diff is negative and
\* elapsed_days < -(state[i-1] + tz_diff).
C5_SignLaw ==
  DebtWritten =>
    \A i \in 2..Len(games) :
      (Debt(i - 1) > 0 /\ Debt(i) < 0) =>
        /\ StepComputes(i)
        /\ Candidate(i) < 0
        /\ 60 * ElapsedDays(i) < -Candidate(i)

\* C5 witness: a positive debt followed by a negative one.
C5_Witness ==
  DebtWritten /\ \E i \in 2..Len(games) : Debt(i - 1) > 0 /\ Debt(i) < 0

\* The accumulator has been called and control has left it.
PastDebt ==
  pc \notin {"load", "multiple_games_in_short_timeframe", "playing_at_high_altitude",
             "night_spend_in_known_party_nightlife_city", "calculate_running_sleep_debt"}

\* C6: where a timezone is missing or the arithmetic fails at index i, the
\* debt is the previous one; no exception leaves the function; and every
\* index that does not fail follows the recurrence from the value before it,
\* frozen or not.
C6_FrozenOnFailure ==
  (PastDebt /\ \E i \in 2..Len(games) : ~StepComputes(i)) =>
    /\ error # "calculate_running_sleep_debt"
    /\ Len(cols.running_sleep_debt) = Len(games)
    /\ \A i \in 2..Len(games) :
         IF StepComputes(i)
           THEN Debt(i) = (IF Candidate(i) > 0
                             THEN Max(Candidate(i) - 60 * ElapsedDays(i), 0)
                           ELSE IF Candidate(i) < 0
                             THEN Min(Candidate(i) + 60 * ElapsedDays(i), 0)
                           ELSE 0)
           ELSE Debt(i) = Debt(i - 1)

\* C6 witness: a nonzero debt kept across a failed step.
C6_Witness ==
  /\ PastDebt /\ DebtWritten
  /\ \E i \in 2..Len(games) : ~StepComputes(i) /\ Debt(i) # 0 /\ Debt(i) = Debt(i - 1)

\* sleep_debt_penalty has written its column.
PenaltyWritten == Len(games) >= 1 /\ Len(cols.penalty_sleep_debt) = Len(games)

\* The whole hours in a debt of m minutes, sign dropped.
WholeHours(m) == CHOOSE k \in 0..40 : k * 60 <= Abs(m) /\ Abs(m) < (k + 1) * 60

\* C7: penalty_sleep_debt is -10 times the whole hours of the debt's
\* magnitude; it is never positive, a multiple of 10, and 0 for a debt of
\* less than an hour.
C7_DebtPenalty ==
  PenaltyWritten =>
    \A i \in Rows :
      /\ cols.penalty_sleep_debt[i] = -10 * WholeHours(Debt(i))
      /\ cols.penalty_sleep_debt[i] <= 0
      /\ cols.penalty_sleep_debt[i] % 10 = 0
      /\ (Abs(Debt(i)) < 60 => cols.penalty_sleep_debt[i] = 0)

\* C7 witness: a negative debt of less than an hour with penalty 0, and a
\* debt of an hour and a half with penalty -10.
C7_Witness ==
  /\ PenaltyWritten
  /\ \E i \in Rows : Debt(i) < 0 /\ Debt(i) > -60 /\ cols.penalty_sleep_debt[i] = 0
  /\ \E i \in Rows : Abs(Debt(i)) = 90 /\ cols.penalty_sleep_debt[i] = -10

\* -------------------------------------------------------------- density claims
DensityWritten == Len(games) >= 1 /\ Len(cols.penalty_multiple_games) = Len(games)

NonDecreasingDates ==
  \A j \in Rows, k \in Rows : j < k => games[j].date_converted <= games[k].date_converted

\* The games up to and including game i whose date is at most k days before
\* game i's.
GamesWithin(i, k) ==
  Cardinality({j \in 1..i : games[i].date_converted - games[j].date_converted <= k})

ConditionsFired(i) ==
  (IF GamesWithin(i, 1) >= 2 THEN 1 ELSE 0) + (IF GamesWithin(i, 3) >= 3 THEN 1 ELSE 0)
  + (IF GamesWithin(i, 5) >= 4 THEN 1 ELSE 0) + (IF GamesWithin(i, 7) >= 5 THEN 1 ELSE 0)

\* C8: on a timeline with non-decreasing dates the four counters of game i
\* are the numbers of games (game i included) dated at most 1, 3, 5 and 7 days
\* before it, and the penalty is 0, -20 or -40 as none, exactly one or more
\* than one of count_1 >= 2, count_3 >= 3, count_5 >= 4, count_7 >= 5 hold.
C8_DensityPenalty ==
  (DensityWritten /\ NonDecreasingDates) =>
    \A i \in Rows :
      /\ window_counts(games, i)
           = <<GamesWithin(i, 1), GamesWithin(i, 3), GamesWithin(i, 5), GamesWithin(i, 7)>>
      /\ cols.penalty_multiple_games[i]
           = (IF ConditionsFired(i) = 0 THEN 0
              ELSE IF ConditionsFired(i) = 1 THEN -20 ELSE -40)

\* C8 witness: a sorted timeline with a game more than 7 days before another
\* (the scan breaks off), a game with exactly one condition and a game with
\* several.
C8_Witness ==
  /\ DensityWritten /\ NonDecreasingDates
  /\ \E i \in Rows : games[i].date_converted - games[1].date_converted > 7
  /\ \E i \in Rows : ConditionsFired(i) = 1 /\ cols.penalty_multiple_games[i] = -20
  /\ \E i \in Rows : ConditionsFired(i) > 1 /\ cols.penalty_multiple_games[i] = -40

\* Exactly two games, on consecutive calendar days.
TwoGamesOnDays01 ==
  Len(games) = 2 /\ games[2].date_converted = games[1].date_converted + 1

\* C9: of two games on days 0 and 1 the second meets the back-to-back
\* condition and no other (conditions_met = 1, penalty the tier-1 value) and
\* the first has penalty 0.
C9_BackToBack ==
  (DensityWritten /\ TwoGamesOnDays01) =>
    /\ window_counts(games, 2)[1] >= 2
    /\ window_counts(games, 2)[2] < 3
    /\ window_counts(games, 2)[3] < 4
    /\ window_counts(games, 2)[4] < 5
    /\ conditions_met(games, 2) = 1
    /\ cols.penalty_multiple_games[2] = Tier1Penalty
    /\ cols.penalty_multiple_games[1] = 0

\* C9 witness: that timeline, scored.
C9_Witness ==
  DensityWritten /\ TwoGamesOnDays01 /\ cols.penalty_multiple_games = <<0, -20>>

\* ------------------------------------------------------------ circadian claims
CircadianWritten ==
  /\ Len(games) >= 1
  /\ Len(cols.penalty_handicapped_hours) = Len(games)
  /\ Len(cols.bonus_optimal_hours) = Len(games)

\* The body-clock time of row i in minutes after midnight: h = BodyMinute / 60.
BodyMinute(i) == (Val(games[i].start_datetime_ET) + Debt(i)) % 1440

\* C10: for a row with a start, the -20 is applied iff 12.0 <= h <= 16.0 and
\* the +20 iff 16.0167 <= h <= 20.0, never both; h = 16.00 is in the penalty
\* band, h = 16.02 in the bonus band and h = 16.005 in neither.
C10_Bands ==
  CircadianWritten =>
    /\ \A i \in Rows :
         ~IsNaT(games[i].start_datetime_ET) =>
           /\ cols.penalty_handicapped_hours[i] \in {-20, 0}
           /\ cols.bonus_optimal_hours[i] \in {20, 0}
           /\ (cols.penalty_handicapped_hours[i] = -20
                 <=> (12 * 60 <= BodyMinute(i) /\ BodyMinute(i) <= 16 * 60))
           /\ (cols.bonus_optimal_hours[i] = 20
                 <=> (160167 * 60 <= 10000 * BodyMinute(i) /\ BodyMinute(i) <= 20 * 60))
           /\ ~(cols.penalty_handicapped_hours[i] = -20 /\ cols.bonus_optimal_hours[i] = 20)
    /\ in_handicapped_band(1600, 100) /\ ~in_optimal_band(1600, 100)
    /\ in_optimal_band(1602, 100) /\ ~in_handicapped_band(1602, 100)
    /\ ~in_handicapped_band(16005, 1000) /\ ~in_optimal_band(16005, 1000)

\* C10 witness: a row at body-clock 16:00 with the penalty and no bonus and a
\* row at 16:02 with the bonus and no penalty.
C10_Witness ==
  /\ CircadianWritten
  /\ \E i \in Rows : /\ ~IsNaT(games[i].start_datetime_ET)
                       /\ BodyMinute(i) = 960
                       /\ cols.penalty_handicapped_hours[i] = -20
                       /\ cols.bonus_optimal_hours[i] = 0
  /\ \E i \in Rows : /\ ~IsNaT(games[i].start_datetime_ET)
                       /\ BodyMinute(i) = 962
                       /\ cols.bonus_optimal_hours[i] = 20
                       /\ cols.penalty_handicapped_hours[i] = 0

\* C11: a row without a game start gets 0 from both circadian stages, neither
\* stage raises, and the rows that have a start are classified by their
\* body-clock time all the same.
C11_UndefinedStartNeutral ==
  CircadianWritten =>
    /\ error \notin {"game_time_is_played_during_handicapped_performance_hours",
                     "game_time_is_in_played_during_optimal_performance_hours"}
    /\ \A i \in Rows :
         IF IsNaT(games[i].start_datetime_ET)
           THEN cols.penalty_handicapped_hours[i] = 0 /\ cols.bonus_optimal_hours[i] = 0
           ELSE /\ (cols.penalty_handicapped_hours[i] = -20
                      <=> (12 * 60 <= BodyMinute(i) /\ BodyMinute(i) <= 16 * 60))
                /\ (cols.bonus_optimal_hours[i] = 20
                      <=> (160167 * 60 <= 10000 * BodyMinute(i) /\ BodyMinute(i) <= 20 * 60))

\* C11 witness: a row without a start, with 0 and 0, followed by a row that
\* got the penalty.
C11_Witness ==
  /\ CircadianWritten
  /\ \E i \in Rows, j \in Rows :
       /\ i < j
       /\ IsNaT(games[i].start_datetime_ET)
       /\ cols.penalty_handicapped_hours[i] = 0 /\ cols.bonus_optimal_hours[i] = 0
       /\ ~IsNaT(games[j].start_datetime_ET)
       /\ cols.penalty_handicapped_hours[j] = -20

\* The kickoff of row i read on the venue's wall clock plus the row's debt, in
\* minutes after midnight, when the schedule lies in regime s.
LocalBodyMinute(i, s) ==
  ( Val(games[i].start_datetime_ET)
    + (utcoffset(games[i].timezone, s) - UtcOffset[s].America_New_York)
    + Debt(i) ) % 1440

\* C12: the body-clock time that both circadian stages classify is the local
\* start of the game (the kickoff on the venue's wall clock) shifted by the
\* row's debt: in whichever regime the schedule lies, the penalty is applied
\* iff that time is in 12:00-16:00 and the bonus iff it is in 16:01-20:00.
C12_LocalBodyClock ==
  CircadianWritten =>
    \A i \in Rows :
      (~IsNaT(games[i].start_datetime_ET) /\ ~IsNaT(games[i].timezone)) =>
        \E s \in Seasons :
          /\ (cols.penalty_handicapped_hours[i] = -20
                <=> (12 * 60 <= LocalBodyMinute(i, s) /\ LocalBodyMinute(i, s) <= 16 * 60))
          /\ (cols.bonus_optimal_hours[i] = 20
                <=> (160167 * 60 <= 10000 * LocalBodyMinute(i, s)
                     /\ LocalBodyMinute(i, s) <= 20 * 60))

\* ------------------------------------------------------------ rest-time claims
\* calculate_rest_time_between_games has returned with its two columns.
RestWritten ==
  /\ Len(games) >= 1
  /\ Len(cols.rest_time_hours) = Len(games)
  /\ Len(cols.penalty_rest_time) = Len(games)

LocalStartsDefined(i) ==
  ~IsNaT(games[i].game_time_local_timezone) /\ ~IsNaT(games[i + 1].game_time_local_timezone)

\* local_start[i+1] - (local_start[i] + duration[i] + 1 h + 1.5 h), in minutes:
\* the rest of pair (i, i+1) before any flight time is taken off.
RestBeforeFlight(i) ==
  Val(games[i + 1].game_time_local_timezone)
  - (Val(games[i].game_time_local_timezone) + games[i].LOG + 60 + 90)

\* The flight times (minutes) the pair can have: the great-circle one, or 0
\* when a venue did not resolve.
FlightTimes(i) ==
  {0} \cup (IF games[i].city # "" /\ games[i + 1].city # ""
             THEN {FlightTable[CityKey(games[i].city)][CityKey(games[i + 1].city)]}
             ELSE {})

\* C13: for every consecutive pair with both local starts, rest_hours[i] is
\* local_start[i+1] - (local_start[i] + duration[i] + 1 h + flight + 1.5 h),
\* and the earlier row i carries -10 iff rest_hours[i] < 20 (exactly 20 gives
\* 0); the last row has no rest time and penalty 0.
C13_RestTime ==
  RestWritten =>
    /\ \A i \in 1..(Len(games) - 1) :
         LocalStartsDefined(i) =>
           /\ ~IsNaT(cols.rest_time_hours[i])
           /\ \E f \in FlightTimes(i) :
                Val(cols.rest_time_hours[i]) = RestBeforeFlight(i) - f
           /\ (cols.penalty_rest_time[i] = -10 <=> Val(cols.rest_time_hours[i]) < 20 * 60)
           /\ (cols.penalty_rest_time[i] = 0 <=> Val(cols.rest_time_hours[i]) >= 20 * 60)
    /\ IsNaT(cols.rest_time_hours[Len(games)])
    /\ cols.penalty_rest_time[Len(games)] = 0

\* C13 witness: a pair resting exactly 20 hours without penalty, and a pair
\* with a flight between two cities resting less, with the penalty on its
\* earlier row.
C13_Witness ==
  /\ RestWritten
  /\ \E i \in 1..(Len(games) - 1) :
       /\ LocalStartsDefined(i)
       /\ cols.rest_time_hours[i] = <<20 * 60>>
       /\ cols.penalty_rest_time[i] = 0
  /\ \E i \in 1..(Len(games) - 1) :
       /\ LocalStartsDefined(i)
       /\ Val(cols.rest_time_hours[i]) < RestBeforeFlight(i)
       /\ Val(cols.rest_time_hours[i]) < 20 * 60
       /\ cols.penalty_rest_time[i] = -10
       /\ cols.penalty_rest_time[i + 1] = 0

\* The calls to the resolver that pair i made.
CallsOf(i) == {k \in 1..Len(geocode_calls) : geocode_calls[k].idx = i}

\* A venue of pair i did not resolve: a call returned nothing or raised.
Unresolved(i) ==
  \E k \in CallsOf(i) : geocode_calls[k].result \in {"none", "raised"}

\* Control has left calculate_rest_time_between_games.
PastRest == pc \in {"calculate_sleep_score", "done"} \/ error = "calculate_rest_time_between_games"

\* C14: when a venue of a pair does not resolve (the resolver returns nothing
\* or raises), the pair's flight time is 0, so its travel time is exactly the
\* 1.5 hours, and the loop goes on to the pairs after it: it stops early only
\* at a pair whose own timestamps or timezone make it raise, never because of
\* the resolver.
C14_UnresolvedVenue ==
  PastRest =>
    /\ \A i \in 1..(Len(games) - 1) :
         Unresolved(i) =>
           /\ (RestWritten /\ LocalStartsDefined(i))
                => cols.rest_time_hours[i] = <<RestBeforeFlight(i)>>
           /\ \/ \A j \in (i + 1)..(Len(games) - 1) : CallsOf(j) # {}
              \/ \E j \in i..(Len(games) - 1) : rest_pair_raises(games[j], games[j + 1])
    /\ (\A j \in 1..(Len(games) - 1) : ~rest_pair_raises(games[j], games[j + 1]))
         => (RestWritten /\ \A j \in 1..(Len(games) - 1) : CallsOf(j) # {})

\* C14 witness: between two different cities the resolver raised, the pair's
\* rest has no flight time taken off, and the pair after it was resolved and
\* has its flight time taken off.
C14_Witness ==
  /\ RestWritten
  /\ \E i \in 1..(Len(games) - 1), j \in 1..(Len(games) - 1) :
       /\ i < j
       /\ \E k \in CallsOf(i) : geocode_calls[k].result = "raised"
       /\ LocalStartsDefined(i)
       /\ games[i].city # games[i + 1].city
       /\ cols.rest_time_hours[i] = <<RestBeforeFlight(i)>>
       /\ ~Unresolved(j)
       /\ LocalStartsDefined(j)
       /\ Val(cols.rest_time_hours[j]) < RestBeforeFlight(j)

\* ------------------------------------------------------------- pipeline claims
\* C15: on every timeline with a row, also one in which a row has no timezone
\* or no start, no stage of the pipeline raises: control never leaves a stage by an
\* exception, and once the rest-time stage has been called every row has its
\* rest-time penalty (0 where the rule could not be computed).
C15_NoFatalPath ==
  Len(games) >= 1 =>
    /\ pc # "raised"
    /\ error = ""
    /\ (pc \in {"calculate_sleep_score", "done"} =>
          Len(cols.penalty_rest_time) = Len(games))

\* --------------------------------------------------------------- static claims
StaticWritten ==
  /\ Len(games) >= 1
  /\ Len(cols.penalty_high_altitude) = Len(games)
  /\ Len(cols.penalty_nightlife_city) = Len(games)

\* C16: penalty_high_altitude is -10 iff the row's city is Denver and 0
\* otherwise, penalty_nightlife_city is -10 iff the city is Los Angeles,
\* Miami, Chicago or Dallas and 0 otherwise; two rows with the same city get
\* the same values wherever they stand and whatever the other rows are.
C16_StaticModifiers ==
  StaticWritten =>
    /\ \A i \in Rows :
         /\ cols.penalty_high_altitude[i] = (IF games[i].city = "Denver" THEN -10 ELSE 0)
         /\ cols.penalty_nightlife_city[i]
              = (IF games[i].city \in {"Los Angeles", "Miami", "Chicago", "Dallas"}
                 THEN -10 ELSE 0)
    /\ \A i \in Rows, j \in Rows :
         games[i].city = games[j].city =>
           /\ cols.penalty_high_altitude[i] = cols.penalty_high_altitude[j]
           /\ cols.penalty_nightlife_city[i] = cols.penalty_nightlife_city[j]

\* C16 witness: Denver first and last with Dallas between them.
C16_Witness ==
  /\ StaticWritten
  /\ Len(games) = 3
  /\ games[1].city = "Denver" /\ games[2].city = "Dallas" /\ games[3].city = "Denver"
  /\ cols.penalty_high_altitude = <<-10, 0, -10>>
  /\ cols.penalty_nightlife_city = <<0, -10, 0>>

\* ------------------------------------------------------------- resolver claims
\* C17: in one run over a timeline the resolver is called at most once for
\* each distinct (city, state, country): no two calls of the run carry the
\* same location.
C17_GeocodeOncePerLocation ==
  \A k \in 1..Len(geocode_calls), l \in 1..Len(geocode_calls) :
    k # l => geocode_calls[k].location # geocode_calls[l].location

\* ----------------------------------------------------------- multi-team claims
\* apply_sleep_score_calculations has returned its result.
Returned == pc = "returned"

\* C18: the result of apply_sleep_score_calculations has one scored row per
\* row of the input frame, and the k-th scored row is the k-th input row,
\* also when the rows of different teams interleave.
C18_InputOrder ==
  Returned =>
    /\ Len(sleep_scores) = Len(frame)
    /\ \A k \in 1..Len(frame) : sleep_scores[k].game = frame[k]

\* ---------------------------------------------------------- determinism claims
\* C19: the running_sleep_debt (and with it the debt penalty) that a run
\* writes is the one that a run on the same timeline at any other instant
\* writes: it is the same in whichever daylight-saving regime the run executes.
C19_EvaluationTimeIndependent ==
  PenaltyWritten =>
    \A s \in Seasons :
      /\ cols.running_sleep_debt = sleep_debt_list(games, s, Len(games))
      /\ \A i \in Rows :
           cols.penalty_sleep_debt[i] = debt_penalty(sleep_debt_list(games, s, Len(games))[i])

\* ------------------------------------------------------------- scenario claims
\* Game A on day 0, game B on day 1 in another timezone, game C on day 9; A's
\* venue is neither the altitude city nor a nightlife city.
ScenarioABC ==
  /\ Len(games) = 3
  /\ games[2].date_converted = games[1].date_converted + 1
  /\ games[3].date_converted = games[1].date_converted + 9
  /\ ~IsNaT(games[1].timezone) /\ ~IsNaT(games[2].timezone)
  /\ games[1].timezone # games[2].timezone
  /\ games[1].city # "Denver"
  /\ games[1].city \notin {"Los Angeles", "Miami", "Chicago", "Dallas"}

\* C20 as claimed: in that timeline every adjustment of game A is 0 and its
\* final score is 100.
C20_AsClaimed ==
  (Done /\ ScenarioABC) =>
    /\ cols.penalty_multiple_games[1] = 0
    /\ cols.penalty_sleep_debt[1] = 0
    /\ cols.penalty_handicapped_hours[1] = 0
    /\ cols.bonus_optimal_hours[1] = 0
    /\ cols.penalty_rest_time[1] = 0
    /\ cols.sleep_score[1] = 100

\* C20 (amended): in that timeline game A has density delta 0, debt 0 and
\* sleep-debt delta 0; its circadian deltas are those of its own kickoff with
\* no debt, its rest-time delta is -10 iff its rest before B is under 20
\* hours, and its final score is min(100, 100 + those deltas).
C20_FirstGame ==
  (Done /\ ScenarioABC) =>
    /\ cols.penalty_multiple_games[1] = 0
    /\ cols.running_sleep_debt[1] = 0
    /\ cols.penalty_sleep_debt[1] = 0
    /\ cols.penalty_high_altitude[1] = 0
    /\ cols.penalty_nightlife_city[1] = 0
    /\ cols.penalty_handicapped_hours[1]
         = (IF 12 * 60 <= Val(games[1].start_datetime_ET) % 1440
               /\ Val(games[1].start_datetime_ET) % 1440 <= 16 * 60 THEN -20 ELSE 0)
    /\ cols.bonus_optimal_hours[1]
         = (IF 160167 * 60 <= 10000 * (Val(games[1].start_datetime_ET) % 1440)
               /\ Val(games[1].start_datetime_ET) % 1440 <= 20 * 60 THEN 20 ELSE 0)
    /\ cols.penalty_rest_time[1]
         = (IF ~IsNaT(cols.rest_time_hours[1]) /\ Val(cols.rest_time_hours[1]) < 20 * 60
            THEN -10 ELSE 0)
    /\ cols.sleep_score[1]
         = Min(100, 100 + cols.penalty_handicapped_hours[1] + cols.bonus_optimal_hours[1]
                        + cols.penalty_rest_time[1])

\* C20 witness: game A with an evening kickoff, the bonus, and the rest-time
\* penalty for the short night before B.
C20_Witness ==
  /\ Done /\ ScenarioABC
  /\ cols.bonus_optimal_hours[1] = 20
  /\ cols.penalty_rest_time[1] = -10
  /\ cols.penalty_multiple_games[1] = 0
  /\ cols.penalty_sleep_debt[1] = 0

\* Game B is played on the calendar day after the first game A, at a venue
\* whose UTC offset is 3 hours ahead of A's.
ScenarioB ==
  /\ Len(games) >= 2
  /\ games[2].date_converted = games[1].date_converted + 1
  /\ TzResolved(2) /\ StartsDefined(2)
  /\ TzDiff(2) = 3 * 60

\* C21 as claimed: game B has the tier-1 density penalty, a running sleep
\* debt of exactly 3 hours (no whole day of decay, whatever the two kickoff
\* times) and a final score below 100.
C21_AsClaimed ==
  (Done /\ ScenarioB) =>
    /\ cols.penalty_multiple_games[2] = -20
    /\ Debt(2) = 3 * 60
    /\ cols.sleep_score[2] < 100

\* C21 (amended): game B has the tier-1 density penalty and a final score
\* below 100; its running sleep debt is 3 hours when B's kickoff is less than
\* 24 hours after A's (no whole day of decay) and 2 hours when it is 24 hours
\* or more after it (one whole day of decay).
C21_GameB ==
  (Done /\ ScenarioB) =>
    /\ cols.penalty_multiple_games[2] = -20
    /\ cols.sleep_score[2] < 100
    /\ LET diff == Val(games[2].start_datetime_ET) - Val(games[1].start_datetime_ET)
       IN /\ (diff < 1440 => Debt(2) = 3 * 60)
          /\ (diff >= 1440 => Debt(2) = 2 * 60)

\* C21 witness: B's kickoff exactly 24 hours after A's, with a debt of 2 hours.
C21_Witness ==
  /\ Done /\ ScenarioB
  /\ Val(games[2].start_datetime_ET) - Val(games[1].start_datetime_ET) = 1440
  /\ Debt(2) = 2 * 60
  /\ cols.penalty_multiple_games[2] = -20
  /\ cols.sleep_score[2] < 100

\* What apply_sleep_score_calculations hands to its caller: the scored rows
\* once it has returned, nothing when an exception left it.
Result == IF pc = "returned" THEN sleep_scores ELSE <<>>

\* The call of apply_sleep_score_calculations is over.
CallOver == pc \in {"returned", "raised"}

TeamsOf(fr) == {fr[k].Team : k \in 1..Len(fr)}

\* Team t's own timeline can be scored: none of its pairs makes the rest-time
\* stage raise.
OwnTimelineScores(t) == ~rest_time_escapes(team_games(frame, t))

\* C22: the results of team t's rows are a function of team t's ordered rows
\* alone: whatever the rows of the other teams are, a team whose own timeline
\* can be scored gets, for each of its rows in order, the debt, the density,
\* static, debt and circadian deltas that its own timeline determines.
C22_PerTeamIndependence ==
  CallOver =>
    \A t \in TeamsOf(frame) :
      OwnTimelineScores(t) =>
        LET tg == team_games(frame, t)
            out == SelectSeq(Result, LAMBDA r : r.game.Team = t)
            debt == sleep_debt_list(tg, now_season, Len(tg))
        IN /\ Len(out) = Len(tg)
           /\ \A i \in 1..Len(tg) :
                /\ out[i].game = tg[i]
                /\ out[i].scores.running_sleep_debt = debt[i]
                /\ out[i].scores.penalty_sleep_debt = debt_penalty(debt[i])
                /\ out[i].scores.penalty_multiple_games = density_penalty(tg, i)
                /\ out[i].scores.penalty_high_altitude = high_altitude_penalty(tg[i].city)
                /\ out[i].scores.penalty_nightlife_city = nightlife_penalty(tg[i].city)
                /\ out[i].scores.penalty_handicapped_hours
                     = handicapped_penalty(tg[i].start_datetime_ET, debt[i])
                /\ out[i].scores.bonus_optimal_hours
                     = optimal_bonus(tg[i].start_datetime_ET, debt[i])

\* ------------------------------------------------------------ early-exit claim
\* The four counters after a scan of every preceding game, from back_idx down
\* to the first row, without the early exit.
RECURSIVE ScanAll(_, _, _, _)
ScanAll(gs, idx, back_idx, c) ==
  IF back_idx < 1 THEN c
  ELSE LET delta_days == gs[idx].date_converted - gs[back_idx].date_converted
       IN ScanAll(gs, idx, back_idx - 1,
                  <<IF delta_days <= 1 THEN c[1] + 1 ELSE c[1],
                    IF delta_days <= 3 THEN c[2] + 1 ELSE c[2],
                    IF delta_days <= 5 THEN c[3] + 1 ELSE c[3],
                    IF delta_days <= 7 THEN c[4] + 1 ELSE c[4]>>)

\* The penalty that the counters c give.
PenaltyOfCounts(c) ==
  LET met == (IF c[1] >= 2 THEN 1 ELSE 0) + (IF c[2] >= 3 THEN 1 ELSE 0)
             + (IF c[3] >= 4 THEN 1 ELSE 0) + (IF c[4] >= 5 THEN 1 ELSE 0)
  IN IF met > 1 THEN -40 ELSE IF met = 1 THEN -20 ELSE 0

\* C23: on a timeline with non-decreasing dates, the scan that stops at the
\* first preceding game more than 7 days back gives, for every game, the same
\* four counters as the scan of all preceding games, and the penalty written
\* is the one the full scan's counters give.
C23_EarlyExitSafe ==
  (DensityWritten /\ NonDecreasingDates) =>
    \A i \in Rows :
      /\ window_counts(games, i) = ScanAll(games, i, i - 1, <<1, 1, 1, 1>>)
      /\ cols.penalty_multiple_games[i]
           = PenaltyOfCounts(ScanAll(games, i, i - 1, <<1, 1, 1, 1>>))

\* C23 witness: a game whose scan stops at a game more than 7 days back and
\* leaves an earlier game unvisited, having counted a game 6 or 7 days back.
C23_Witness ==
  /\ DensityWritten /\ NonDecreasingDates
  /\ \E i \in Rows, j \in Rows, k \in Rows :
       /\ 1 < j /\ j < k /\ k < i
       /\ games[i].date_converted - games[j].date_converted > 7
       /\ games[i].date_converted - games[k].date_converted \in {6, 7}
       /\ window_counts(games, i)[4] >= 2

\* -------------------------------------------------------- optimal-hours claim
\* C24: a row with a start gets bonus_optimal_hours = +20 iff its body-clock
\* time is from 16:01 to 20:00, both ends included, and 0 otherwise.
C24_OptimalFrom1601 ==
  CircadianWritten =>
    \A i \in Rows :
      ~IsNaT(games[i].start_datetime_ET) =>
        cols.bonus_optimal_hours[i]
          = (IF 16 * 60 + 1 <= BodyMinute(i) /\ BodyMinute(i) <= 20 * 60 THEN 20 ELSE 0)


\* ------------------------------------------------------------------ C25
\* The frame holds the rows that clean_data wrote.
Cleaned == pc # "load"

RowsOfGame(id) == {k \in 1..Len(frame) : frame[k].Game_ID = id}

\* The place where the game of row k is played: the home team's city.
PlaceOfGame(k) == get_team_location(frame[k].Home)

\* Every game has exactly two rows, one with Home_Game true for the home
\* team and one with Home_Game false for the visitor.
TwoRowsPerGame ==
  \A k \in 1..Len(frame) :
    /\ Cardinality(RowsOfGame(frame[k].Game_ID)) = 2
    /\ \E h, a \in RowsOfGame(frame[k].Game_ID) :
         /\ frame[h].Home_Game /\ frame[h].Team = frame[h].Home
         /\ ~frame[a].Home_Game /\ frame[a].Team = frame[a].Visitor

\* C25: clean_data expands every game into two rows with the same Game_ID,
\* one with Home_Game true and one with Home_Game false, and each row's
\* city, state, country and timezone are those of the place where the game
\* is played: the home team's city, for the home row and the visitor row.
C25_LocationOfVenue ==
  Cleaned =>
    /\ TwoRowsPerGame
    /\ \A k \in 1..Len(frame) :
         /\ frame[k].city = PlaceOfGame(k).city
         /\ frame[k].state = PlaceOfGame(k).state
         /\ frame[k].country = PlaceOfGame(k).country
         /\ frame[k].timezone \in get_timezone_results(PlaceOfGame(k))

\* ------------------------------------------------------------------ C26
\* The rows of one team carry one timezone.
OneTimezonePerTeam ==
  \A j, k \in 1..Len(frame) :
    frame[j].Team = frame[k].Team => frame[j].timezone = frame[k].timezone

\* C26: after clean_data all rows of a team carry the same timezone, and
\* apply_sleep_score_calculations gives running_sleep_debt = 0 and
\* penalty_sleep_debt = 0 to every row of every team, in the columns of the
\* team in hand and in the rows already concatenated.
C26_NoDebtInMultiTeam ==
  Cleaned =>
    /\ OneTimezonePerTeam
    /\ DebtWritten => \A i \in Rows : Debt(i) = 0
    /\ PenaltyWritten => \A i \in Rows : cols.penalty_sleep_debt[i] = 0
    /\ \A k \in 1..Len(sleep_scores) :
         /\ sleep_scores[k].scores.running_sleep_debt = 0
         /\ sleep_scores[k].scores.penalty_sleep_debt = 0

\* A team's scored timeline holds a home game and an away game played three
\* hours of timezone away, both timezones resolved, and its debt is 0.
C26_Witness ==
  /\ Returned
  /\ \E j, k \in 1..Len(sleep_scores) :
       /\ j < k
       /\ sleep_scores[j].game.Team = sleep_scores[k].game.Team
       /\ sleep_scores[j].game.Home_Game
       /\ ~sleep_scores[k].game.Home_Game
       /\ ~IsNaT(sleep_scores[j].game.timezone)
       /\ ~IsNaT(sleep_scores[k].game.timezone)
       /\ ~IsNaT(Venue[team_info(sleep_scores[k].game.Home)].timezone)
       /\ Venue[team_info(sleep_scores[k].game.Home)].timezone # sleep_scores[k].game.timezone
       /\ sleep_scores[k].scores.running_sleep_debt = 0
       /\ sleep_scores[k].scores.penalty_sleep_debt = 0

\* ------------------------------------------------------------------ C27
\* The scores of the draft computed so far.
DraftScored == pc \in {"draft_loop", "draft_done"}

\* C27: in the draft, calculate_sleep_score returns exactly 100 for the first
\* game of the schedule, and for every later game a score in 0..100.
C27_DraftScoreRange ==
  DraftScored =>
    \A i \in 1..Len(sleep_scores) :
      /\ i = 1 => sleep_scores[i] = 100
      /\ 0 <= sleep_scores[i] /\ sleep_scores[i] <= 100

\* The loop is over; one later game's adjustments sum below 0 and its score
\* is 0, another's sum exceeds 100 and its score is 100.
C27_Witness ==
  /\ pc = "draft_done"
  /\ \E i, j \in 2..Len(sleep_scores) :
       /\ draft_score(games, i) < 0 /\ sleep_scores[i] = 0
       /\ draft_score(games, j) > 100 /\ sleep_scores[j] = 100

\* ------------------------------------------------------------------ C28
\* The games of the schedule, each counted once, in the last `days` calendar
\* days ending at game i.
DistinctGamesWithin(i, days) ==
  {k \in 1..i : games[i].Date - games[k].Date <= days - 1}

\* The windows whose `threshold` distinct games are there at game i.
DenseWindows(i) ==
  {w \in windows : Cardinality(DistinctGamesWithin(i, w[1])) >= w[2]}

\* C28: calculate_density_penalties adds GAME_DENSITY_PENALTY for a window
\* (days, threshold) only when at least threshold distinct games, the current
\* one counted once, lie in the last `days` days: the penalty of a scored game
\* is no more than one GAME_DENSITY_PENALTY per such window.
C28_DensityWindows ==
  DraftScored =>
    \A i \in 2..Len(sleep_scores) :
      calculate_density_penalties(games, i)
        >= GAME_DENSITY_PENALTY * Cardinality(DenseWindows(i))

====
